---- MODULE Spec2Model ----
(***************************************************************************)
(* Model of the iceberg weighted benchmark (package bench, IcebergWeighted) *)
(* of warp: Prepare and Cleanup, Start's fan-out and join, the reader and  *)
(* writer worker loops, and the truncated-normal sampler sampleTableIndex. *)
(*                                                                         *)
(* Numbers.  float64 values are modelled as exact fractions over the grid   *)
(* 1/Scale: a Mean of m stands for m/Scale, a Variance of v for v/Scale^2,  *)
(* so that its square root s stands for s/Scale.  A draw of NormFloat64 is  *)
(* a whole number z of standard deviations, |z| <= MaxZ.  A sample          *)
(* z*stddev + mean is then the fraction (z*s + m)/Scale.                    *)
(***************************************************************************)
EXTENDS Integers, Sequences, FiniteSets

(* ---------------------------------------------------------------- bounds *)
Scale == 10        \* grid: the unit interval [0,1] is 0..Scale (tenths)
MaxStd == 1        \* largest standard deviation, in grid steps
MaxZ == 2          \* largest |draw| of NormFloat64
MaxTables == 2     \* largest len(b.tables) of a run
BigTables == 40    \* len(b.tables) of the one large universe handed to the sampler

(* ------------------------------------------------------ program constants *)
maxSamples == 100000

VARIABLES
    Readers,       \* b.Readers: sequence of WeightedDistribution
    Writers,       \* b.Writers
    Seed,          \* b.Seed
    tables,        \* b.tables, the target universe left by Prepare
    AutoTermDur,   \* b.AutoTermDur
    RpsLimiter,    \* whether a rate limiter is attached to b.Common
    start,         \* the goroutine running Start: pc, distIdx, i, threadID, ret
    wg,            \* sync.WaitGroup counter of Start
    workers,       \* the spawned goroutines, in spawn order
    wait,          \* the wait channel: "open" or "closed"
    cancelled,     \* the caller has cancelled the context given to Start
    autoTerm,      \* the auto-terminator: "off", "armed" or "fired"
    limiterOver,   \* the rate limiter has signalled the end of the run
    rcv,           \* Collector.Receiver(): the Operations buffered in the channel
    smp,           \* one call of sampleTableIndex in progress, and its caller
    det,           \* two random streams made from one seed, and their samples
    TreeConfig,    \* b.TreeConfig, as the number of tables its tree generates
    job,           \* the job's lifecycle: the caller's position, Prepare's and Cleanup's effects
    flags          \* the command line of iceberg-weighted and the position of its main function

cfgVars == <<Readers, Writers, Seed, tables, AutoTermDur, RpsLimiter, TreeConfig>>
runVars == <<start, wg, workers, wait, cancelled, autoTerm, limiterOver, rcv>>
vars == <<cfgVars, runVars, smp, det, job, flags>>

(* ------------------------------------------------------------ the sampler *)
\* math.Sqrt on the grid: Variance v (over Scale^2) to stddev s (over Scale).
Sqrt(v) == CHOOSE s \in 0..v : s * s = v

\* sample := rng.NormFloat64()*stddev + dist.Mean, for the draw z.
SampleOf(z, dist) == z * Sqrt(dist.Variance) + dist.Mean

\* sample >= 0.0 && sample <= 1.0
InUnit(sample) == sample >= 0 /\ sample <= Scale

\* A conversion that rounds to the nearest integer.
ToIntRound(num, den) ==
    IF num >= 0 THEN (2 * num + den) \div (2 * den) ELSE -((2 * (-num) + den) \div (2 * den))

\* Go's int(x) of the fraction num/den (den > 0): truncation toward zero.
ToInt(num, den) == IF num >= 0 THEN num \div den ELSE -((-num) \div den)

\* idx := int(value * float64(numTables)), then the two clamps.
IndexOfNoClamp(value, numTables) == ToInt(value * numTables, Scale)
IndexOf(value, numTables) ==
    LET idx == ToInt(value * numTables, Scale)
        hi  == IF idx >= numTables THEN numTables - 1 ELSE idx
    IN  IF hi < 0 THEN 0 ELSE hi


(* ------------------------------------------------------- the random stream *)
\* math/rand is modelled as a generator with RngMod states that visits every
\* state in turn: the stream is a function of the seed alone.
RngMod == 2 * MaxZ + 1

\* rand.New(rand.NewSource(seed))
NewSourceFromRun(seed) == (seed + det.made) % RngMod
NewSource(seed) == seed % RngMod

\* rng.NormFloat64(): the draw, and the stream advanced by one draw.
NormFloat64(rng) == [z |-> rng - MaxZ, rng |-> (rng + 2) % RngMod]

Draws == (-MaxZ)..MaxZ

\* for i := 0; i < maxSamples; i++
LoopCondOffByOne(i) == i <= maxSamples
LoopCond(i) == i < maxSamples

\* The rejection loop on a seeded stream: the accepted value (0 when the loop
\* runs out) and the stream after the draws consumed.
RECURSIVE SampleLoop(_, _, _)
SampleLoop(rng, dist, i) ==
    IF ~LoopCond(i)
    THEN [value |-> 0, rng |-> rng]
    ELSE LET d      == NormFloat64(rng)
             sample == SampleOf(d.z, dist)
         IN  IF InUnit(sample)
             THEN [value |-> sample, rng |-> d.rng]
             ELSE SampleLoop(d.rng, dist, i + 1)

sampleTableIndex(rng, dist, numTables) ==
    LET r == SampleLoop(rng, dist, 0)
    IN  [idx |-> IndexOf(r.value, numTables), rng |-> r.rng]

(* --------------------------------------- one call of the sampler, stepwise *)
\* The same loop, one iteration per step, with the draw left free: every
\* sequence of draws is a behaviour.  smp.out tells how the loop was left.
SmpIdle == [pc |-> "idle", dist |-> [Count |-> 0, Mean |-> 0, Variance |-> 0],
            i |-> 0, value |-> 0, out |-> "none", idx |-> 0]

\* The body of the loop on the draw z: accepted (value = sample; break), or
\* rejected (i++).  After the loop i is out of scope.
IterateOn(z) ==
    LET sample == SampleOf(z, smp.dist)
    IN  IF InUnit(sample)
        THEN [smp EXCEPT !.value = sample, !.pc = "scale", !.out = "break", !.i = 0]
        ELSE [smp EXCEPT !.i = @ + 1]

\* One iteration of the loop, on any draw.
SampleIterate ==
    /\ smp.pc = "loop"
    /\ LoopCond(smp.i)
    /\ smp' \in {IterateOn(z) : z \in Draws}
    /\ UNCHANGED <<cfgVars, runVars, det, job, flags>>

\* A loop that falls back on the mean when it runs out.
SampleExhaustUsesMean ==
    /\ smp.pc = "loop"
    /\ ~LoopCond(smp.i)
    /\ smp' = [smp EXCEPT !.pc = "scale", !.out = "exhausted", !.i = 0,
                          !.value = smp.dist.Mean]
    /\ UNCHANGED <<cfgVars, runVars, det, job, flags>>

\* The loop condition fails: maxSamples draws were rejected, value is still 0.
SampleExhaust ==
    /\ smp.pc = "loop"
    /\ ~LoopCond(smp.i)
    /\ smp' = [smp EXCEPT !.pc = "scale", !.out = "exhausted", !.i = 0]
    /\ UNCHANGED <<cfgVars, runVars, det, job, flags>>

\* idx := int(value * float64(numTables)), the clamps, return idx.
SampleScale ==
    /\ smp.pc = "scale"
    /\ smp' = [smp EXCEPT !.idx = IndexOf(smp.value, Len(tables)), !.pc = "index"]
    /\ UNCHANGED <<cfgVars, runVars, det, job, flags>>

\* The caller: tbl := b.tables[tableIdx], which panics out of range.
CallerIndex ==
    /\ smp.pc = "index"
    /\ smp' = [smp EXCEPT !.pc = IF smp.idx >= 0 /\ smp.idx < Len(tables)
                                 THEN "done" ELSE "panic"]
    /\ UNCHANGED <<cfgVars, runVars, det, job, flags>>

(* ------------------------------------------------------------------ Start *)
OpTableGet == "TABLE_GET"
OpTableUpdate == "TABLE_UPDATE"

NoOp == [OpType |-> "none", Thread |-> 0, File |-> 0, Err |-> ""]

\* The context the workers run on is done: the caller cancelled it, or the
\* auto-terminator wrapped around it has fired.
CtxDone == cancelled \/ autoTerm = "fired"

\* seed := b.Seed + int64((distIdx+1)*1000) + int64(threadID)
ReaderSeed(distIdx, threadID) == Seed + (distIdx + 1) * 1000 + threadID

\* seed := b.Seed + int64((distIdx+1)*2000) + int64(threadID)
WriterSeed(distIdx, threadID) == Seed + (distIdx + 1) * 2000 + threadID

\* go func(thread, d, s) { defer wg.Done(); b.runReader/runWriter(...) }: the
\* new goroutine sets up its locals (rcv, done, catalog, rng) and stands at
\* <-wait.
Goroutine(role, thread, d, s) ==
    [role |-> role, thread |-> thread, dist |-> d, seed |-> s,
     rng |-> NewSource(s), pc |-> "wait", tableIdx |-> 0, call |-> "none",
     err |-> FALSE, op |-> NoOp, returned |-> 0, sent |-> 0,
     issuedAfter |-> 0, sentAfter |-> 0, consulted |-> 0, exitAt |-> "none"]

\* A Start that wraps the context whatever b.AutoTermDur is.
StartBeginAlwaysAutoTerm ==
    /\ start.pc = "begin"
    /\ autoTerm' = "armed"
    /\ start' = [pc |-> "readers", distIdx |-> 0, i |-> 0, threadID |-> 0, ret |-> "none"]
    /\ UNCHANGED <<cfgVars, wg, workers, wait, cancelled, limiterOver, rcv, smp, det, job, flags>>

\* if b.AutoTermDur > 0 { ctx = c.AutoTerm(ctx, ...) }; threadID := 0
StartBegin ==
    /\ start.pc = "begin"
    /\ autoTerm' = IF AutoTermDur > 0 THEN "armed" ELSE "off"
    /\ start' = [pc |-> "readers", distIdx |-> 0, i |-> 0, threadID |-> 0, ret |-> "none"]
    /\ UNCHANGED <<cfgVars, wg, workers, wait, cancelled, limiterOver, rcv, smp, det, job, flags>>

\* One pass of the inner loop over b.Readers[distIdx].
SpawnReaderSameThread ==
    /\ start.pc = "readers"
    /\ start.distIdx < Len(Readers)
    /\ start.i < Readers[start.distIdx + 1].Count
    /\ wg' = wg + 1
    /\ workers' = Append(workers,
                     Goroutine("reader", start.threadID, Readers[start.distIdx + 1],
                               ReaderSeed(start.distIdx, start.threadID)))
    /\ start' = [start EXCEPT !.i = @ + 1]
    /\ UNCHANGED <<cfgVars, wait, cancelled, autoTerm, limiterOver, rcv, smp, det, job, flags>>

SpawnReader ==
    /\ start.pc = "readers"
    /\ start.distIdx < Len(Readers)
    /\ start.i < Readers[start.distIdx + 1].Count
    /\ wg' = wg + 1
    /\ workers' = Append(workers,
                     Goroutine("reader", start.threadID, Readers[start.distIdx + 1],
                               ReaderSeed(start.distIdx, start.threadID)))
    /\ start' = [start EXCEPT !.i = @ + 1, !.threadID = @ + 1]
    /\ UNCHANGED <<cfgVars, wait, cancelled, autoTerm, limiterOver, rcv, smp, det, job, flags>>

\* The inner loop over a reader group ends: next distIdx.
NextReaderGroup ==
    /\ start.pc = "readers"
    /\ start.distIdx < Len(Readers)
    /\ ~(start.i < Readers[start.distIdx + 1].Count)
    /\ start' = [start EXCEPT !.distIdx = @ + 1, !.i = 0]
    /\ UNCHANGED <<cfgVars, wg, workers, wait, cancelled, autoTerm, limiterOver, rcv, smp, det, job, flags>>

\* The range over b.Readers ends: on to the range over b.Writers.
ReadersDone ==
    /\ start.pc = "readers"
    /\ ~(start.distIdx < Len(Readers))
    /\ start' = [start EXCEPT !.pc = "writers", !.distIdx = 0, !.i = 0]
    /\ UNCHANGED <<cfgVars, wg, workers, wait, cancelled, autoTerm, limiterOver, rcv, smp, det, job, flags>>

SpawnWriter ==
    /\ start.pc = "writers"
    /\ start.distIdx < Len(Writers)
    /\ start.i < Writers[start.distIdx + 1].Count
    /\ wg' = wg + 1
    /\ workers' = Append(workers,
                     Goroutine("writer", start.threadID, Writers[start.distIdx + 1],
                               WriterSeed(start.distIdx, start.threadID)))
    /\ start' = [start EXCEPT !.i = @ + 1, !.threadID = @ + 1]
    /\ UNCHANGED <<cfgVars, wait, cancelled, autoTerm, limiterOver, rcv, smp, det, job, flags>>

NextWriterGroup ==
    /\ start.pc = "writers"
    /\ start.distIdx < Len(Writers)
    /\ ~(start.i < Writers[start.distIdx + 1].Count)
    /\ start' = [start EXCEPT !.distIdx = @ + 1, !.i = 0]
    /\ UNCHANGED <<cfgVars, wg, workers, wait, cancelled, autoTerm, limiterOver, rcv, smp, det, job, flags>>

\* The range over b.Writers ends: Start stands at wg.Wait().
WritersDone ==
    /\ start.pc = "writers"
    /\ ~(start.distIdx < Len(Writers))
    /\ start' = [start EXCEPT !.pc = "join", !.distIdx = 0, !.i = 0]
    /\ UNCHANGED <<cfgVars, wg, workers, wait, cancelled, autoTerm, limiterOver, rcv, smp, det, job, flags>>

\* The inner loop over a reader group run to its end in one step, which is
\* what happens while no other goroutine is scheduled: the remaining
\* Count - i goroutines are spawned with consecutive thread ids.
SpawnReaderGroup ==
    /\ start.pc = "readers"
    /\ start.distIdx < Len(Readers)
    /\ start.i < Readers[start.distIdx + 1].Count
    /\ LET d == Readers[start.distIdx + 1]
           n == d.Count - start.i
       IN  /\ wg' = wg + n
           /\ workers' = workers \o
                  [j \in 1..n |->
                      Goroutine("reader", start.threadID + j - 1, d,
                                ReaderSeed(start.distIdx, start.threadID + j - 1))]
           /\ start' = [start EXCEPT !.i = d.Count, !.threadID = @ + n]
    /\ UNCHANGED <<cfgVars, wait, cancelled, autoTerm, limiterOver, rcv, smp, det, job, flags>>

SpawnWriterGroup ==
    /\ start.pc = "writers"
    /\ start.distIdx < Len(Writers)
    /\ start.i < Writers[start.distIdx + 1].Count
    /\ LET d == Writers[start.distIdx + 1]
           n == d.Count - start.i
       IN  /\ wg' = wg + n
           /\ workers' = workers \o
                  [j \in 1..n |->
                      Goroutine("writer", start.threadID + j - 1, d,
                                WriterSeed(start.distIdx, start.threadID + j - 1))]
           /\ start' = [start EXCEPT !.i = d.Count, !.threadID = @ + n]
    /\ UNCHANGED <<cfgVars, wait, cancelled, autoTerm, limiterOver, rcv, smp, det, job, flags>>

\* wg.Wait() returns once the counter is zero; return nil.
WaitGroupZeroNoWait == TRUE
WaitGroupZero == wg = 0

StartJoin ==
    /\ start.pc = "join"
    /\ WaitGroupZero
    /\ start' = [start EXCEPT !.pc = "returned", !.ret = "nil"]
    /\ UNCHANGED <<cfgVars, wg, workers, wait, cancelled, autoTerm, limiterOver, rcv, smp, det, job, flags>>

Start ==
    \/ StartBegin
    \/ SpawnReader \/ NextReaderGroup \/ ReadersDone
    \/ SpawnWriter \/ NextWriterGroup \/ WritersDone
    \/ StartJoin

(* ------------------------------------------------------------ the workers *)
MaxOps == 2        \* requests a worker starts before the model stops it at the loop top
ChanCap == 1       \* capacity of the Collector's channel

Workers == 1..Len(workers)

OneIf(b) == IF b THEN 1 ELSE 0

\* b.rpsLimit(ctx): nil without a limiter; with one, an error once the limiter
\* has signalled the end of the run or the context is done, nil otherwise.
rpsLimit == RpsLimiter /\ (limiterOver \/ CtxDone)

\* A barrier the worker walks through.
PassBarrierNoWait(w) ==
    /\ workers[w].pc = "wait"
    /\ workers' = [workers EXCEPT ![w].pc = "top"]
    /\ UNCHANGED <<cfgVars, start, wg, wait, cancelled, autoTerm, limiterOver, rcv, smp, det, job, flags>>

\* A barrier that gives way to the cancellation:
\* select { case <-wait: case <-done: return }.
PassBarrierOrDone(w) ==
    /\ workers[w].pc = "wait"
    /\ \/ /\ wait = "closed"
          /\ workers' = [workers EXCEPT ![w].pc = "top"]
       \/ /\ CtxDone
          /\ workers' = [workers EXCEPT ![w].pc = "exited", ![w].exitAt = "done"]
    /\ UNCHANGED <<cfgVars, start, wait, cancelled, autoTerm, limiterOver, rcv, smp, det, job, flags>>
    /\ wg' = wg - OneIf(workers'[w].pc = "exited")

\* <-wait
PassBarrier(w) ==
    /\ workers[w].pc = "wait"
    /\ wait = "closed"
    /\ workers' = [workers EXCEPT ![w].pc = "top"]
    /\ UNCHANGED <<cfgVars, start, wg, wait, cancelled, autoTerm, limiterOver, rcv, smp, det, job, flags>>

\* A loop top that does not look at the context.
CheckDoneIgnoresCtx(w) ==
    /\ workers[w].pc = "top"
    /\ workers[w].returned < MaxOps \/ limiterOver
    /\ workers' = [workers EXCEPT ![w].pc = "limit"]
    /\ wg' = wg
    /\ UNCHANGED <<cfgVars, start, wait, cancelled, autoTerm, limiterOver, rcv, smp, det, job, flags>>

\* select { case <-done: return; default: }.  The return runs the deferred
\* wg.Done(); exitAt keeps which return it was.  (The model lets a worker begin at most MaxOps iterations, unless
\* the limiter has ended the run and the iteration only leads to the exit.)
CheckDone(w) ==
    /\ workers[w].pc = "top"
    /\ IF CtxDone
       THEN /\ workers' = [workers EXCEPT ![w].pc = "exited", ![w].exitAt = "done"]
            /\ wg' = wg - 1
       ELSE /\ workers[w].returned < MaxOps \/ limiterOver
            /\ workers' = [workers EXCEPT ![w].pc = "limit"]
            /\ wg' = wg
    /\ UNCHANGED <<cfgVars, start, wait, cancelled, autoTerm, limiterOver, rcv, smp, det, job, flags>>

\* A return that skips the deferred wg.Done().
RateLimitNoDone(w) ==
    /\ workers[w].pc = "limit"
    /\ workers' = [workers EXCEPT ![w].pc = IF rpsLimit THEN "exited" ELSE "sample",
                                   ![w].consulted = @ + 1,
                                   ![w].exitAt = IF rpsLimit THEN "limit" ELSE @]
    /\ wg' = wg
    /\ UNCHANGED <<cfgVars, start, wait, cancelled, autoTerm, limiterOver, rcv, smp, det, job, flags>>

\* A worker that asks the limiter and goes on whatever it answers.
RateLimitIgnoresEnd(w) ==
    /\ workers[w].pc = "limit"
    /\ workers' = [workers EXCEPT ![w].pc = "sample", ![w].consulted = @ + 1]
    /\ wg' = wg
    /\ UNCHANGED <<cfgVars, start, wait, cancelled, autoTerm, limiterOver, rcv, smp, det, job, flags>>

\* if b.rpsLimit(ctx) != nil { return }; consulted counts the calls of rpsLimit.
RateLimit(w) ==
    /\ workers[w].pc = "limit"
    /\ IF rpsLimit
       THEN /\ workers' = [workers EXCEPT ![w].pc = "exited", ![w].consulted = @ + 1,
                                           ![w].exitAt = "limit"]
            /\ wg' = wg - 1
       ELSE /\ workers' = [workers EXCEPT ![w].pc = "sample", ![w].consulted = @ + 1]
            /\ wg' = wg
    /\ UNCHANGED <<cfgVars, start, wait, cancelled, autoTerm, limiterOver, rcv, smp, det, job, flags>>

\* A job with one random stream for all its workers (kept by the first one).
IssueSharedRng(w, opType, call) ==
    /\ workers[w].pc = "sample"
    /\ LET r == sampleTableIndex(workers[1].rng, workers[w].dist, Len(tables))
       IN  workers' = [[workers EXCEPT ![1].rng = r.rng] EXCEPT
               ![w].tableIdx = r.idx,
               ![w].op = [OpType |-> opType, Thread |-> workers[w].thread,
                          File |-> tables[r.idx + 1], Err |-> ""],
               ![w].call = call,
               ![w].issuedAfter = @ + OneIf(CtxDone),
               ![w].pc = "incall"]
    /\ UNCHANGED <<cfgVars, start, wg, wait, cancelled, autoTerm, limiterOver, rcv, smp, det, job, flags>>

\* tableIdx := sampleTableIndex(rng, dist, len(b.tables)); tbl := b.tables[tableIdx];
\* op := Operation{...}; op.Start = time.Now(); the client call is issued.
\* b.tables[tableIdx] panics when the index is out of range.
Issue(w, opType, call) ==
    /\ workers[w].pc = "sample"
    /\ LET r == sampleTableIndex(workers[w].rng, workers[w].dist, Len(tables))
       IN  IF r.idx < Len(tables)
           THEN workers' = [workers EXCEPT
                    ![w].rng = r.rng,
                    ![w].tableIdx = r.idx,
                    ![w].op = [OpType |-> opType, Thread |-> workers[w].thread,
                               File |-> tables[r.idx + 1], Err |-> ""],
                    ![w].call = call,
                    ![w].issuedAfter = @ + OneIf(CtxDone),
                    ![w].pc = "incall"]
           ELSE workers' = [workers EXCEPT
                    ![w].rng = r.rng, ![w].tableIdx = r.idx, ![w].pc = "panic"]
    /\ UNCHANGED <<cfgVars, start, wg, wait, cancelled, autoTerm, limiterOver, rcv, smp, det, job, flags>>

\* A worker that gives up on the first failed call.
CallReturnAbortsOnError(w) ==
    /\ workers[w].pc = "incall"
    /\ \E failed \in BOOLEAN :
         /\ workers' = [workers EXCEPT
                ![w].err = failed,
                ![w].op.Err = IF failed THEN "error" ELSE "",
                ![w].call = "none",
                ![w].returned = @ + 1,
                ![w].pc = IF failed THEN "exited" ELSE "send"]
         /\ wg' = IF failed THEN wg - 1 ELSE wg
    /\ UNCHANGED <<cfgVars, start, wait, cancelled, autoTerm, limiterOver, rcv, smp, det, job, flags>>

\* A call whose error is not copied into the Operation.
CallReturnNoErr(w) ==
    /\ workers[w].pc = "incall"
    /\ \E failed \in BOOLEAN :
         workers' = [workers EXCEPT
             ![w].err = failed,
             ![w].call = "none",
             ![w].returned = @ + 1,
             ![w].pc = "send"]
    /\ UNCHANGED <<cfgVars, start, wg, wait, cancelled, autoTerm, limiterOver, rcv, smp, det, job, flags>>

\* The client call returns, with an error or without; op.End = time.Now();
\* if err != nil { op.Err = err.Error() }
CallReturn(w) ==
    /\ workers[w].pc = "incall"
    /\ \E failed \in BOOLEAN :
         workers' = [workers EXCEPT
             ![w].err = failed,
             ![w].op.Err = IF failed THEN "error" ELSE "",
             ![w].call = "none",
             ![w].returned = @ + 1,
             ![w].pc = "send"]
    /\ UNCHANGED <<cfgVars, start, wg, wait, cancelled, autoTerm, limiterOver, rcv, smp, det, job, flags>>

\* A send that gives way to the cancellation: select { case rcv <- op: case <-done: return }.
SendOrDone(w) ==
    /\ workers[w].pc = "send"
    /\ \/ /\ Len(rcv) < ChanCap
          /\ rcv' = Append(rcv, workers[w].op)
          /\ workers' = [workers EXCEPT
                 ![w].sent = @ + 1,
                 ![w].sentAfter = @ + OneIf(CtxDone),
                 ![w].tableIdx = 0, ![w].op = NoOp, ![w].err = FALSE,
                 ![w].pc = "top"]
          /\ wg' = wg
       \/ /\ CtxDone
          /\ rcv' = rcv
          /\ workers' = [workers EXCEPT ![w].pc = "exited", ![w].exitAt = "done"]
          /\ wg' = wg - 1
    /\ UNCHANGED <<cfgVars, start, wait, cancelled, autoTerm, limiterOver, smp, det, job, flags>>

\* rcv <- op: blocks while the channel is full.  The iteration ends: its
\* locals tableIdx, op and err go out of scope.
SendUnlessFailed(w) ==
    /\ workers[w].pc = "send"
    /\ Len(rcv) < ChanCap
    /\ rcv' = IF workers[w].err THEN rcv ELSE Append(rcv, workers[w].op)
    /\ workers' = [workers EXCEPT
           ![w].sent = @ + OneIf(~workers[w].err),
           ![w].sentAfter = @ + OneIf(CtxDone /\ ~workers[w].err),
           ![w].tableIdx = 0, ![w].op = NoOp, ![w].err = FALSE,
           ![w].pc = "top"]
    /\ UNCHANGED <<cfgVars, start, wg, wait, cancelled, autoTerm, limiterOver, smp, det, job, flags>>

Send(w) ==
    /\ workers[w].pc = "send"
    /\ Len(rcv) < ChanCap
    /\ rcv' = Append(rcv, workers[w].op)
    /\ workers' = [workers EXCEPT
           ![w].sent = @ + 1,
           ![w].sentAfter = @ + OneIf(CtxDone),
           ![w].tableIdx = 0, ![w].op = NoOp, ![w].err = FALSE,
           ![w].pc = "top"]
    /\ UNCHANGED <<cfgVars, start, wg, wait, cancelled, autoTerm, limiterOver, smp, det, job, flags>>

runReader(w) ==
    /\ workers[w].role = "reader"
    /\ \/ PassBarrier(w)
       \/ CheckDone(w)
       \/ RateLimit(w)
       \/ Issue(w, OpTableGet, "GetTable")
       \/ CallReturn(w)
       \/ Send(w)

\* A writer loop that issues the reader's request.
runWriterIssuesGet(w) ==
    /\ workers[w].role = "writer"
    /\ \/ PassBarrier(w)
       \/ CheckDone(w)
       \/ RateLimit(w)
       \/ Issue(w, OpTableGet, "GetTable")
       \/ CallReturn(w)
       \/ Send(w)

runWriter(w) ==
    /\ workers[w].role = "writer"
    /\ \/ PassBarrier(w)
       \/ CheckDone(w)
       \/ RateLimit(w)
       \/ Issue(w, OpTableUpdate, "UpdateTable")
       \/ CallReturn(w)
       \/ Send(w)

(* -------------------------------------------------------- the environment *)
\* The caller releases the start signal: close(wait).  job.lateRelease keeps
\* whether the context was done by then.
CloseWait ==
    /\ wait = "open"
    /\ wait' = "closed"
    /\ job' = [job EXCEPT !.lateRelease = CtxDone]
    /\ UNCHANGED <<cfgVars, start, wg, workers, cancelled, autoTerm, limiterOver, rcv, smp, det, flags>>

\* The caller cancels the context it gave to Start.
Cancel ==
    /\ ~cancelled
    /\ cancelled' = TRUE
    /\ UNCHANGED <<cfgVars, start, wg, workers, wait, autoTerm, limiterOver, rcv, smp, det, job, flags>>

\* The auto-terminator cancels the context it wraps.
AutoTermFire ==
    /\ autoTerm = "armed"
    /\ autoTerm' = "fired"
    /\ UNCHANGED <<cfgVars, start, wg, workers, wait, cancelled, limiterOver, rcv, smp, det, job, flags>>

\* The rate limiter decides that the run is over.
LimiterEnd ==
    /\ RpsLimiter
    /\ ~limiterOver
    /\ limiterOver' = TRUE
    /\ UNCHANGED <<cfgVars, start, wg, workers, wait, cancelled, autoTerm, rcv, smp, det, job, flags>>

\* The Collector's consumer takes the oldest Operation out of the channel.
Receive ==
    /\ rcv # <<>>
    /\ rcv' = Tail(rcv)
    /\ UNCHANGED <<cfgVars, start, wg, workers, wait, cancelled, autoTerm, limiterOver, smp, det, job, flags>>

(* ------------------------------------------------------ Prepare and Cleanup *)
\* job.pc: where the caller of the job stands; job.ret: what Prepare returned;
\* job.status: the number of UpdateStatus reports; job.calls: the client calls
\* issued by Prepare and Cleanup; job.probe: what became of the probe;
\* job.lateRelease: the start signal was released with the context done.
NoError == [msg |-> "none", wraps |-> "none"]
Nil == [msg |-> "nil", wraps |-> "none"]

JobCreated == [pc |-> "created", ret |-> NoError, status |-> 0, calls |-> <<>>,
               probe |-> "none", lateRelease |-> FALSE]

\* b.Tree.AllTables(): the tables the tree of b.TreeConfig generates.
AllTables == [k \in 1..TreeConfig |-> k]

\* b.Tree = NewTree(...); UpdateStatus; b.tables = b.Tree.AllTables();
\* if len(b.tables) == 0 { return fmt.Errorf("no tables found: ...") };
\* UpdateStatus; the probe GetTable on b.tables[0] is issued.
PrepareLoad ==
    /\ job.pc = "prepare"
    /\ tables' = AllTables
    /\ IF Len(tables') = 0
       THEN job' = [job EXCEPT !.status = @ + 1, !.pc = "failed",
                               !.ret = [msg |-> "no tables found", wraps |-> "none"]]
       ELSE job' = [job EXCEPT !.status = @ + 2, !.pc = "probe", !.probe = "issued",
                               !.calls = Append(@, [name |-> "GetTable", table |-> tables'[1]])]
    /\ UNCHANGED <<Readers, Writers, Seed, AutoTermDur, RpsLimiter, TreeConfig, runVars, smp, det, flags>>

\* A probe whose error is dropped.
PrepareProbeReturnIgnoresErr ==
    /\ job.pc = "probe"
    /\ \E failed \in BOOLEAN :
         job' = [job EXCEPT !.status = @ + 1, !.pc = "prepared", !.ret = Nil,
                            !.probe = IF failed THEN "error" ELSE "ok"]
    /\ UNCHANGED <<cfgVars, runVars, smp, det, flags>>

\* The probe returns: if err != nil { return fmt.Errorf("cannot access table: %w", err) };
\* UpdateStatus; return nil.
PrepareProbeReturn ==
    /\ job.pc = "probe"
    /\ \E failed \in BOOLEAN :
         IF failed
         THEN job' = [job EXCEPT !.pc = "failed", !.probe = "error",
                                 !.ret = [msg |-> "cannot access table", wraps |-> "client error"]]
         ELSE job' = [job EXCEPT !.status = @ + 1, !.pc = "prepared", !.probe = "ok",
                                 !.ret = Nil]
    /\ UNCHANGED <<cfgVars, runVars, smp, det, flags>>

Prepare == PrepareLoad \/ PrepareProbeReturn

\* A cleanup that deletes the tables, as a workload that created them would.
CleanupDeletes ==
    /\ job.pc = "cleanup"
    /\ job' = [job EXCEPT !.status = @ + 1, !.pc = "cleaned",
                          !.calls = @ \o [k \in 1..Len(tables) |->
                                             [name |-> "DeleteTable", table |-> tables[k]]]]
    /\ tables' = <<>>
    /\ UNCHANGED <<Readers, Writers, Seed, AutoTermDur, RpsLimiter, TreeConfig, runVars, smp, det, flags>>

\* b.UpdateStatus("Cleanup: skipping (weighted benchmark does not delete data)")
Cleanup ==
    /\ job.pc = "cleanup"
    /\ job' = [job EXCEPT !.status = @ + 1, !.pc = "cleaned"]
    /\ UNCHANGED <<cfgVars, runVars, smp, det, flags>>

\* The caller of the job runs its lifecycle: Prepare, and if it returned nil
\* Start, and when Start has returned Cleanup.
CallPrepare ==
    /\ job.pc = "created"
    /\ job' = [job EXCEPT !.pc = "prepare"]
    /\ UNCHANGED <<cfgVars, runVars, smp, det, flags>>

CallStartUnchecked ==
    /\ job.pc \in {"prepared", "failed"}
    /\ start.pc = "idle"
    /\ job' = [job EXCEPT !.pc = "started"]
    /\ start' = [start EXCEPT !.pc = "begin"]
    /\ UNCHANGED <<cfgVars, wg, workers, wait, cancelled, autoTerm, limiterOver, rcv, smp, det, flags>>

CallStart ==
    /\ job.pc = "prepared"
    /\ start.pc = "idle"
    /\ job' = [job EXCEPT !.pc = "started"]
    /\ start' = [start EXCEPT !.pc = "begin"]
    /\ UNCHANGED <<cfgVars, wg, workers, wait, cancelled, autoTerm, limiterOver, rcv, smp, det, flags>>

CallCleanup ==
    /\ job.pc = "started"
    /\ start.pc = "returned"
    /\ job' = [job EXCEPT !.pc = "cleanup"]
    /\ UNCHANGED <<cfgVars, runVars, smp, det, flags>>

\* The job of a run in progress: Prepare has returned nil after its three
\* reports and its probe, and Start has been called.
JobStarted ==
    [pc |-> "started", ret |-> Nil, status |-> 3,
     calls |-> <<[name |-> "GetTable", table |-> 1]>>, probe |-> "ok",
     lateRelease |-> FALSE]

(* ------------------------------------------------- the iceberg-weighted command *)
\* A job that was not built by the command.
NoFlags ==
    [pc |-> "none", nargs |-> 0, catalogUri |-> "", accessKey |-> "", secretKey |-> "",
     seed |-> 0, readers |-> 0, readerMean |-> 0, readerVariance |-> 0,
     writers |-> 0, writerMean |-> 0, writerVariance |-> 0]

\* checkIcebergWeightedSyntax: TRUE when no console.Fatal is reached.
checkIcebergWeightedSyntax ==
    /\ ~(flags.nargs > 0)
    /\ ~(flags.catalogUri = "")
    /\ ~(flags.accessKey = "")
    /\ ~(flags.secretKey = "")
    /\ ~(flags.readers < 0)
    /\ ~(flags.writers < 0)
    /\ ~(flags.readers = 0 /\ flags.writers = 0)
    /\ ~(flags.readerMean < 0 \/ flags.readerMean > Scale)
    /\ ~(flags.writerMean < 0 \/ flags.writerMean > Scale)

\* mainIcebergWeighted: the syntax check, which ends the process on a bad
\* command line; then the job is built from the flags, one reader group and
\* one writer group, and handed to runBench.
mainIcebergWeighted ==
    /\ flags.pc = "main"
    /\ IF ~checkIcebergWeightedSyntax
       THEN /\ flags' = [flags EXCEPT !.pc = "fatal"]
            /\ UNCHANGED <<Readers, Writers, Seed, job>>
       ELSE /\ Readers' = <<[Count |-> flags.readers, Mean |-> flags.readerMean,
                             Variance |-> flags.readerVariance]>>
            /\ Writers' = <<[Count |-> flags.writers, Mean |-> flags.writerMean,
                             Variance |-> flags.writerVariance]>>
            /\ Seed' = flags.seed
            /\ job' = JobCreated
            /\ flags' = [flags EXCEPT !.pc = "runBench"]
    /\ UNCHANGED <<tables, AutoTermDur, RpsLimiter, TreeConfig, runVars, smp, det>>

(* ---------------------------------------------- determinism of the sampler *)
MaxCalls == 2      \* calls of sampleTableIndex made on each stream
MaxSeed == 2       \* largest base seed

DetIdle == [pc |-> "idle", seed |-> 0, dist |-> [Count |-> 0, Mean |-> 0, Variance |-> 0],
            made |-> 0, rng |-> <<0, 0>>, seq |-> <<(<<>>), (<<>>)>>]

\* rng := rand.New(rand.NewSource(seed)): stream k is created.
DetNew(k) ==
    /\ det.pc = "run"
    /\ det.made = k - 1
    /\ det' = [det EXCEPT !.rng[k] = NewSource(det.seed), !.made = k]
    /\ UNCHANGED <<cfgVars, runVars, smp, job, flags>>

\* tableIdx := sampleTableIndex(rng, dist, len(b.tables)) on stream k.
DetCall(k) ==
    /\ det.pc = "run"
    /\ det.made >= k
    /\ Len(det.seq[k]) < MaxCalls
    /\ LET r == sampleTableIndex(det.rng[k], det.dist, Len(tables))
       IN  det' = [det EXCEPT !.rng[k] = r.rng, !.seq[k] = Append(@, r.idx)]
    /\ UNCHANGED <<cfgVars, runVars, smp, job, flags>>

(* ------------------------------------------------------ the specifications *)
Dist(c, m, v) == [Count |-> c, Mean |-> m, Variance |-> v]

ReaderDist(c) == Dist(c, 1, 1)
WriterDist(c) == Dist(c, Scale - 1, 1)

\* The worker counts of the reader groups and of the writer groups.
Shapes ==
    { <<r, w>> \in
        {<<>>, <<0>>, <<1>>, <<2>>, <<0, 1>>} \X {<<>>, <<0>>, <<1>>, <<1, 1>>} :
        \/ r = <<1>> /\ w = <<0>>
        \/ r = <<2>> /\ w = <<>>
        \/ r = <<0, 1>> /\ w = <<1>>
        \/ r = <<>> /\ w = <<1, 1>>
        \/ r = <<0>> /\ w = <<0>> }

RunInit ==
    /\ start = [pc |-> "begin", distIdx |-> 0, i |-> 0, threadID |-> 0, ret |-> "none"]
    /\ wg = 0
    /\ workers = <<>>
    /\ wait = "open"
    /\ cancelled = FALSE
    /\ autoTerm = "off"
    /\ limiterOver = FALSE
    /\ rcv = <<>>

\* A job as its caller hands it to Start after Prepare: the groups, the
\* tables, and at most one of the two optional stopping devices (the
\* auto-terminator, the rate limiter).
InitOf(shapes) ==
    /\ \E sh \in shapes :
         /\ Readers = [k \in 1..Len(sh[1]) |-> ReaderDist(sh[1][k])]
         /\ Writers = [k \in 1..Len(sh[2]) |-> WriterDist(sh[2][k])]
    /\ Seed = 0
    /\ tables = [k \in 1..MaxTables |-> k]
    /\ AutoTermDur \in {0, 1}
    /\ RpsLimiter \in BOOLEAN
    /\ ~(AutoTermDur > 0 /\ RpsLimiter)
    /\ RunInit
    /\ smp = SmpIdle
    /\ det = DetIdle
    /\ TreeConfig = Len(tables)
    /\ job = JobStarted
    /\ flags = NoFlags

Init == InitOf(Shapes)

Next ==
    \/ Start
    \/ \E w \in Workers : runReader(w)
    \/ \E w \in Workers : runWriter(w)
    \/ CloseWait
    \/ Cancel
    \/ AutoTermFire
    \/ LimiterEnd
    \/ Receive

Spec == Init /\ [][Next]_vars

\* --- the same run under fair scheduling: as long as a goroutine of the
\* program (Start, a worker, the Collector's consumer) can take a step, one of
\* them does; a client call in flight returns (a step of its worker) ---
LiveShapes == {<< <<1>>, <<1>> >>, << <<0>>, <<0>> >>}

InitLive == InitOf(LiveShapes)

Scheduled ==
    \/ Start
    \/ \E w \in Workers : runReader(w) \/ runWriter(w)
    \/ Receive

Fairness == WF_vars(Scheduled)

SpecLive == InitLive /\ [][Next]_vars /\ Fairness



\* --- a run in which the start signal is never released: Start alone moves ---
MaxCount == 2      \* largest worker count of a group
BigCount == 1000   \* worker count of the one large group

CountLists(n) == UNION {[1..k -> 0..MaxCount] : k \in 0..n}

SeedShapes ==
    (CountLists(2) \X CountLists(1)) \cup {<< <<0, 0, BigCount>>, <<1>> >>}

RunIdle ==
    /\ start = [pc |-> "idle", distIdx |-> 0, i |-> 0, threadID |-> 0, ret |-> "none"]
    /\ wg = 0
    /\ workers = <<>>
    /\ wait = "open"
    /\ cancelled = FALSE
    /\ autoTerm = "off"
    /\ limiterOver = FALSE
    /\ rcv = <<>>

InitSeeds ==
    /\ \E sh \in SeedShapes :
         /\ Readers = [k \in 1..Len(sh[1]) |-> ReaderDist(sh[1][k])]
         /\ Writers = [k \in 1..Len(sh[2]) |-> WriterDist(sh[2][k])]
    /\ Seed \in 0..MaxSeed
    /\ tables = [k \in 1..MaxTables |-> k]
    /\ AutoTermDur = 0
    /\ RpsLimiter = FALSE
    /\ RunInit
    /\ smp = SmpIdle
    /\ det = DetIdle
    /\ TreeConfig = Len(tables)
    /\ job = JobStarted
    /\ flags = NoFlags

NextSeeds == Start \/ SpawnReaderGroup \/ SpawnWriterGroup

SpecSeeds == InitSeeds /\ [][NextSeeds]_vars

\* --- one call of sampleTableIndex, every sequence of draws ---
\* Means: below 0, the two ends of [0,1], its middle, and above 1.
SamplerMeans == {-1, 0, Scale \div 2, Scale, Scale + 1}

\* Each mean without spread and with the largest spread.
SamplerDists == {Dist(0, m, s * s) : m \in SamplerMeans, s \in {0, MaxStd}}

NumTablesChoices == {1, MaxTables}

\* The distributions without spread, of every mean in [0,1].
ExactDists == {Dist(0, m, 0) : m \in 0..Scale}

\* The calls made: the small universes with every distribution, the large one
\* with the distributions without spread.
SamplerCalls ==
    (NumTablesChoices \X (SamplerDists \cup ExactDists)) \cup ({BigTables} \X ExactDists)

InitSampler ==
    /\ Readers = <<>> /\ Writers = <<>> /\ Seed = 0
    /\ AutoTermDur = 0
    /\ RpsLimiter = FALSE
    /\ RunIdle
    /\ \E c \in SamplerCalls :
         /\ tables = [k \in 1..c[1] |-> k]
         /\ smp = [SmpIdle EXCEPT !.pc = "loop", !.dist = c[2]]
    /\ det = DetIdle
    /\ TreeConfig = Len(tables)
    /\ job = JobStarted
    /\ flags = NoFlags

NextSampler == SampleIterate \/ SampleExhaust \/ SampleScale \/ CallerIndex

SpecSampler == InitSampler /\ [][NextSampler]_vars

\* --- two streams made from one seed ---
ValidDists == {Dist(0, m, s * s) : m \in 0..Scale, s \in 0..MaxStd}

InitDet ==
    /\ Readers = <<>> /\ Writers = <<>> /\ Seed = 0
    /\ \E n \in 1..MaxTables : tables = [k \in 1..n |-> k]
    /\ AutoTermDur = 0
    /\ RpsLimiter = FALSE
    /\ RunIdle
    /\ smp = SmpIdle
    /\ \E sd \in 0..MaxSeed, d \in ValidDists :
         det = [DetIdle EXCEPT !.pc = "run", !.seed = sd, !.dist = d]
    /\ TreeConfig = Len(tables)
    /\ job = JobStarted
    /\ flags = NoFlags

NextDet == \E k \in 1..2 : DetNew(k) \/ DetCall(k)

SpecDet == InitDet /\ [][NextDet]_vars

\* --- the whole lifecycle of a job of one reader and one writer, from its
\* creation: the tree generates 0..MaxTables tables, the probe succeeds or
\* fails, the caller releases the start signal and cancels when it likes ---
InitJob ==
    /\ Readers = <<ReaderDist(1)>>
    /\ Writers = <<WriterDist(1)>>
    /\ Seed = 0
    /\ tables = <<>>
    /\ TreeConfig \in 0..MaxTables
    /\ AutoTermDur = 0
    /\ RpsLimiter = FALSE
    /\ RunIdle
    /\ smp = SmpIdle
    /\ det = DetIdle
    /\ job = JobCreated
    /\ flags = NoFlags

NextJob ==
    \/ CallPrepare
    \/ Prepare
    \/ CallStart
    \/ Start
    \/ \E w \in Workers : runReader(w)
    \/ \E w \in Workers : runWriter(w)
    \/ CloseWait
    \/ Cancel
    \/ Receive
    \/ CallCleanup
    \/ Cleanup

SpecJob == InitJob /\ [][NextJob]_vars

\* --- the command: every command line of a small family, up to the call of
\* runBench ---
CliCounts == {-1, 0, 1}

CliMeans == {-1, 0, Scale, Scale + 1}

CliVariances == {-1, 0, 1}

InitCli ==
    /\ flags \in [pc : {"main"}, nargs : {0, 1}, catalogUri : {"", "uri"},
                  accessKey : {"", "key"}, secretKey : {"", "secret"},
                  seed : {0}, readers : CliCounts, readerMean : CliMeans,
                  readerVariance : CliVariances, writers : CliCounts,
                  writerMean : CliMeans, writerVariance : CliVariances]
    /\ Readers = <<>> /\ Writers = <<>> /\ Seed = 0
    /\ tables = <<>>
    /\ TreeConfig = MaxTables
    /\ AutoTermDur = 0
    /\ RpsLimiter = FALSE
    /\ RunIdle
    /\ smp = SmpIdle
    /\ det = DetIdle
    /\ job = [JobCreated EXCEPT !.pc = "none"]

NextCli == mainIcebergWeighted

SpecCli == InitCli /\ [][NextCli]_vars

(* ------------------------------------------------------------- properties *)
RECURSIVE SumCount(_)
SumCount(ds) == IF ds = <<>> THEN 0 ELSE ds[1].Count + SumCount(Tail(ds))

Prefix(ds, g) == SumCount(SubSeq(ds, 1, g - 1))

\* C1: while the start signal has not been released, every spawned worker
\* still stands at <-wait: it has issued no client request, no client call of
\* its has returned, it has sent no Operation, and the Collector's channel is
\* empty.
C1_NothingBeforeStartSignal ==
    wait = "open" =>
        /\ rcv = <<>>
        /\ \A w \in Workers :
             /\ workers[w].pc = "wait"
             /\ workers[w].call = "none"
             /\ workers[w].returned = 0
             /\ workers[w].sent = 0

\* C1 witness: all workers are spawned, Start waits to join them, the run is
\* even cancelled, and the signal is still not released.
C1_Witness ==
    /\ wait = "open"
    /\ start.pc = "join"
    /\ Len(workers) = 2
    /\ cancelled

\* C2: once Start has returned, every worker it spawned has exited: none is
\* inside a client call, none holds an unsent Operation, and every Operation
\* created (one per returned call) has been sent to the Collector.
C2_StartReturnsAfterAllExited ==
    start.pc = "returned" =>
        /\ Len(workers) = SumCount(Readers) + SumCount(Writers)
        /\ \A w \in Workers :
             /\ workers[w].pc = "exited"
             /\ workers[w].call = "none"
             /\ workers[w].sent = workers[w].returned

\* C2 witness: Start has returned from a run of two workers that both sent.
C2_Witness ==
    /\ start.pc = "returned"
    /\ Len(workers) = 2
    /\ \A w \in Workers : workers[w].sent >= 1

\* C3: at every state a worker has sent exactly one Operation per returned
\* client call, less the one it is about to send.
C3_OneOperationPerReturnedCall ==
    \A w \in Workers :
        workers[w].sent = workers[w].returned - OneIf(workers[w].pc = "send")

\* C3 witness: a worker whose two calls returned, the last one with an error
\* and after the cancellation, has sent two Operations.
C3_Witness ==
    /\ \E w \in Workers :
        /\ workers[w].returned = 2
        /\ workers[w].sent = 2
        /\ workers[w].sentAfter = 1
        /\ workers[w].pc = "top"
        /\ rcv # <<>>
        /\ rcv[Len(rcv)].Thread = workers[w].thread
        /\ rcv[Len(rcv)].Err = "error"

\* C4: the workers are numbered 0, 1, 2, ... in spawn order, readers before
\* writers; when the spawning is over there are exactly Count workers of each
\* group, with the group's distribution, and the sum of the Counts in all.
C4_WorkerCountsAndThreadIds ==
    /\ \A w \in Workers : workers[w].thread = w - 1
    /\ \A w \in Workers :
         w < Len(workers) => ~(workers[w].role = "writer" /\ workers[w + 1].role = "reader")
    /\ start.pc \in {"join", "returned"} =>
         /\ Len(workers) = SumCount(Readers) + SumCount(Writers)
         /\ \A g \in 1..Len(Readers) : \A j \in 1..Readers[g].Count :
              LET w == Prefix(Readers, g) + j
              IN  workers[w].role = "reader" /\ workers[w].dist = Readers[g]
         /\ \A g \in 1..Len(Writers) : \A j \in 1..Writers[g].Count :
              LET w == SumCount(Readers) + Prefix(Writers, g) + j
              IN  workers[w].role = "writer" /\ workers[w].dist = Writers[g]

\* C4 witness: two reader groups and a writer group, all non-empty, spawned.
C4_Witness ==
    /\ start.pc = "join"
    /\ Len(Readers) = 2 /\ Readers[1].Count = 2 /\ Readers[2].Count = 1
    /\ Len(Writers) = 1 /\ Writers[1].Count = 2
    /\ Len(workers) = 5

\* C5: the seeds of the spawned workers are pairwise distinct.
C5_SeedsPairwiseDistinct ==
    Cardinality({workers[w].seed : w \in Workers}) = Len(workers)

\* C5 failing input: reader groups of 0, 0 and BigCount workers and one writer:
\* reader 0 of the third group and the writer are given the same seed.
C5_Collision ==
    \E r, w \in Workers :
        /\ workers[r].role = "reader" /\ workers[w].role = "writer"
        /\ workers[r].seed = workers[w].seed

InSamplerCall == smp.pc \in {"loop", "scale", "index", "done", "panic"}

\* C6: for a mean in [0,1] and a variance >= 0, whatever the draws, the index
\* sampleTableIndex returns is in 0..N-1, and the caller's b.tables[tableIdx]
\* does not go out of range.
C6_IndexInRange ==
    (smp.pc \in {"index", "done", "panic"} /\ smp.dist.Mean \in 0..Scale
                                           /\ smp.dist.Variance >= 0) =>
        /\ smp.idx >= 0
        /\ smp.idx <= Len(tables) - 1
        /\ smp.pc # "panic"

\* C6 witness: the accepted value is 1.0 and there are several tables: the
\* index is the last one.
C6_Witness ==
    /\ smp.pc = "done"
    /\ smp.value = Scale
    /\ smp.dist.Variance > 0
    /\ Len(tables) > 1
    /\ smp.idx = Len(tables) - 1

\* C7: a call of sampleTableIndex consumes at most maxSamples draws and none
\* after an accepted one, and ends: while the call is in its loop fewer than
\* maxSamples + 1 draws are consumed (i counts them) and none was accepted, the
\* loop can always take a step, each step either leaves the loop or consumes
\* one more draw, and after the loop the call only goes forward to its return.
C7_SamplerEndsWithinCap ==
    /\ [](InSamplerCall =>
            /\ smp.i >= 0 /\ smp.i <= maxSamples
            /\ smp.pc = "loop" => /\ smp.out = "none" /\ smp.value = 0
                                  /\ ENABLED (SampleIterate \/ SampleExhaust)
            /\ smp.pc \in {"scale", "index"} => ENABLED (SampleScale \/ CallerIndex))
    /\ [][/\ smp.pc = "loop" => (smp'.pc = "scale" \/ (smp'.pc = "loop" /\ smp'.i = smp.i + 1))
          /\ smp.pc = "scale" => smp'.pc = "index"
          /\ smp.pc = "index" => smp'.pc \in {"done", "panic"}
          /\ (smp.pc = "loop" /\ smp'.out = "break") => smp.i < maxSamples]_vars

\* C7 witness: the degenerate case: a mean above 1 with variance 0, no draw is
\* ever accepted, and the call has returned after maxSamples rejected draws.
C7_Witness ==
    /\ smp.pc = "done"
    /\ smp.out = "exhausted"
    /\ smp.dist.Mean > Scale
    /\ smp.dist.Variance = 0

RECURSIVE SumSentAfter(_)
SumSentAfter(n) == IF n = 0 THEN 0 ELSE workers[n].sentAfter + SumSentAfter(n - 1)

C9_AtMostOneMoreAfterCancel ==
    /\ \A w \in Workers : workers[w].issuedAfter <= 1 /\ workers[w].sentAfter <= 1
    /\ SumSentAfter(Len(workers)) <= Len(workers)

\* C9 witness: a worker that passed the loop top before the cancellation has
\* started its one request and sent its one Operation after it, and has exited.
C9_Witness ==
    \E w \in Workers :
        /\ workers[w].issuedAfter = 1
        /\ workers[w].sentAfter = 1
        /\ workers[w].pc = "exited"

\* C10: once the context is done, or the rate limiter has ended the run, and
\* the start signal is released, then (client calls returning, the consumer
\* receiving, every goroutine being scheduled) Start eventually returns, which
\* it does only after every worker has exited (C2).
C10_ShutdownCompletes ==
    ((CtxDone \/ limiterOver) /\ wait = "closed") ~> (start.pc = "returned")

\* C10 witness: Start has returned from a cancelled run in which a reader and
\* a writer had each sent an Operation.
C10_Witness ==
    /\ start.pc = "returned"
    /\ CtxDone
    /\ Len(workers) = 2
    /\ \A w \in Workers : workers[w].pc = "exited" /\ workers[w].sent >= 1

\* C11: Prepare returns nil only with a non-empty target universe and a probe
\* on the first target that succeeded; with an empty universe it returns an
\* error without any client call; a failed probe makes it return an error that
\* wraps the client's error; and while Prepare runs, and after it has failed,
\* no worker exists and Start has not begun.
C11_PrepareSucceedsOnlyAfterProbe ==
    /\ job.ret = Nil =>
          /\ Len(tables) >= 1
          /\ job.probe = "ok"
          /\ job.calls # <<>> /\ job.calls[1] = [name |-> "GetTable", table |-> tables[1]]
    /\ (job.pc \in {"failed", "prepared"} /\ Len(tables) = 0) =>
          /\ job.pc = "failed"
          /\ job.ret = [msg |-> "no tables found", wraps |-> "none"]
          /\ job.calls = <<>> /\ job.probe = "none"
    /\ job.probe = "error" =>
          /\ job.pc = "failed"
          /\ job.ret = [msg |-> "cannot access table", wraps |-> "client error"]
    /\ job.pc \in {"created", "prepare", "probe", "failed"} =>
          /\ workers = <<>> /\ wg = 0
          /\ start.pc = "idle"
    /\ job.pc = "failed" => job.ret \notin {Nil, NoError}

\* C11 witness: the probe has failed and Prepare has returned its error; the
\* caller has even released the start signal and cancelled the context.
C11_Witness ==
    /\ job.pc = "failed"
    /\ job.probe = "error"
    /\ job.ret.wraps = "client error"
    /\ wait = "closed"
    /\ cancelled

\* C12: the lifecycle is Created -> Prepared -> Running -> Cleaned with no step
\* skipped: Start has begun, and workers exist, only on a job whose Prepare
\* returned nil; a worker at or past its sampling step has at least one target
\* and has not panicked on b.tables; Cleanup is called only when Start has
\* returned, with every worker exited; and the caller's position moves only
\* along created, prepare, probe, prepared (or failed), started, cleanup,
\* cleaned.
LifecycleSteps ==
    {<<"created", "prepare">>, <<"prepare", "probe">>, <<"prepare", "failed">>,
     <<"probe", "prepared">>, <<"probe", "failed">>, <<"prepared", "started">>,
     <<"started", "cleanup">>, <<"cleanup", "cleaned">>}

C12_LifecycleInOrder ==
    /\ []((workers # <<>> \/ start.pc # "idle") =>
            /\ job.ret = Nil /\ job.probe = "ok"
            /\ job.pc \in {"started", "cleanup", "cleaned"}
            /\ Len(tables) >= 1)
    /\ [](\A w \in Workers :
            workers[w].pc \in {"sample", "incall", "send", "panic"} =>
                /\ Len(tables) >= 1
                /\ workers[w].pc # "panic")
    /\ [](job.pc \in {"cleanup", "cleaned"} =>
            /\ start.pc = "returned"
            /\ \A w \in Workers : workers[w].pc = "exited")
    /\ [][job'.pc # job.pc => <<job.pc, job'.pc>> \in LifecycleSteps]_vars
    /\ [][(start.pc = "idle" /\ start'.pc # "idle") => job.pc = "prepared"]_vars

\* C12 witness: the job is cleaned after a run in which both workers sent.
C12_Witness ==
    /\ job.pc = "cleaned"
    /\ Len(workers) = 2
    /\ \A w \in Workers : workers[w].sent >= 1

\* C13: a failed client call is never fatal.  A worker has exited only through
\* the return at the cancellation check, with the context done, or the return
\* after rpsLimit; Start returns nil and nothing else.  A worker whose call
\* failed sends its Operation, tagged with the error, and goes back to the
\* loop top; a client call is issued only from the sampling step of an
\* iteration, on the index freshly drawn from the worker's own stream; and as
\* long as nothing has cancelled or ended the run and the channel has room, a
\* worker past the barrier can always take its next step, whatever failed.
C13_FailuresAreNotFatal ==
    /\ [](\A w \in Workers :
            workers[w].pc = "exited" =>
                \/ workers[w].exitAt = "done" /\ CtxDone
                \/ workers[w].exitAt = "limit" /\ RpsLimiter /\ (limiterOver \/ CtxDone))
    /\ [](/\ start.ret \in {"none", "nil"}
          /\ start.pc = "returned" => start.ret = "nil")
    /\ [](\A w \in Workers :
            (/\ workers[w].pc \notin {"wait", "exited"}
             /\ ~CtxDone /\ ~limiterOver
             /\ Len(rcv) < ChanCap
             /\ workers[w].returned < MaxOps) => ENABLED (runReader(w) \/ runWriter(w)))
    /\ [][\A w \in Workers :
            (workers[w].pc = "send" /\ workers[w].err /\ workers'[w] # workers[w]) =>
                /\ workers'[w].pc = "top"
                /\ rcv' = Append(rcv, workers[w].op)
                /\ workers[w].op.Err = "error"]_vars
    /\ [][\A w \in Workers :
            (workers[w].call = "none" /\ workers'[w].call # "none") =>
                LET r == sampleTableIndex(workers[w].rng, workers[w].dist, Len(tables))
                IN  /\ workers[w].pc = "sample"
                    /\ workers'[w].tableIdx = r.idx
                    /\ workers'[w].rng = r.rng
                    /\ workers'[w].op.File = tables[r.idx + 1]]_vars

\* C13 witness: nothing has cancelled or ended the run; both calls of a worker
\* failed: its first error-tagged Operation is in the channel and it stands at
\* the send of the second.
C13_Witness ==
    /\ ~CtxDone /\ ~limiterOver
    /\ \E w \in Workers :
         /\ workers[w].returned = 2
         /\ workers[w].pc = "send"
         /\ workers[w].err
         /\ workers[w].op.Err = "error"
         /\ rcv # <<>>
         /\ rcv[1].Thread = workers[w].thread
         /\ rcv[1].Err = "error"

\* C14: the step of Cleanup issues no client call, leaves the target universe,
\* the Collector's channel, the workers and Start as they are, and makes
\* exactly one status report; so a cleaned job has issued, outside its
\* workers, no client call but Prepare's probe.
C14_CleanupOnlyReports ==
    /\ [][(job.pc = "cleanup" /\ job'.pc # "cleanup") =>
            /\ job'.pc = "cleaned"
            /\ job'.calls = job.calls
            /\ job'.status = job.status + 1
            /\ job'.ret = job.ret
            /\ tables' = tables
            /\ rcv' = rcv
            /\ workers' = workers
            /\ start' = start]_vars
    /\ [](job.pc = "cleaned" =>
            /\ Len(job.calls) = 1
            /\ job.calls[1].name = "GetTable"
            /\ \A w \in Workers : workers[w].call = "none")

\* C14 witness: Cleanup has run on a job with several tables while an
\* Operation of the run was still in the Collector's channel.
C14_Witness ==
    /\ job.pc = "cleaned"
    /\ job.status = 4
    /\ Len(tables) = MaxTables
    /\ rcv # <<>>

\* C15: a call of sampleTableIndex whose maxSamples draws were all rejected
\* keeps the zero value and returns index 0, whatever N >= 1; the call returns
\* as any other does, and the caller's b.tables[0] does not panic.
C15_ExhaustedReturnsZero ==
    (smp.out = "exhausted" /\ smp.pc \in {"scale", "index", "done", "panic"}) =>
        /\ smp.value = 0
        /\ smp.pc \in {"index", "done", "panic"} => smp.idx = 0
        /\ smp.pc # "panic"
        /\ Len(tables) >= 1

\* C15 witness: a mean at the upper end with a spread, several tables, every
\* one of the maxSamples draws fell above 1: the call has returned index 0.
C15_Witness ==
    /\ smp.pc = "done"
    /\ smp.out = "exhausted"
    /\ smp.dist.Mean = Scale
    /\ smp.dist.Variance > 0
    /\ Len(tables) = MaxTables
    /\ smp.idx = 0

\* C16: the value sampleTableIndex keeps on leaving its loop by break is a
\* draw that lies in [0,1], and the loop goes on only past a draw outside
\* [0,1]; the index returned for the accepted value v is min(floor(v*N), N-1):
\* N-1 for v = 1.0, 0 for v = 0; with variance 0 and a mean m in [0,1] the
\* first draw is accepted, v = m and the index is min(floor(m*N), N-1); for
\* m = 0.3 and N = 40 it is 12.
Min2(a, b) == IF a <= b THEN a ELSE b

FloorScaled(v, n) == Min2((v * n) \div Scale, n - 1)

SamplerReturned == smp.pc \in {"index", "done", "panic"}

C16_FirstAcceptedScaled ==
    /\ []((SamplerReturned /\ smp.out = "break") =>
            /\ InUnit(smp.value)
            /\ smp.idx = FloorScaled(smp.value, Len(tables))
            /\ smp.value = Scale => smp.idx = Len(tables) - 1
            /\ smp.value = 0 => smp.idx = 0)
    /\ []((smp.pc \in {"scale", "index", "done", "panic"}
            /\ smp.dist.Variance = 0 /\ smp.dist.Mean \in 0..Scale) =>
            /\ smp.out = "break"
            /\ smp.value = smp.dist.Mean
            /\ SamplerReturned => smp.idx = FloorScaled(smp.dist.Mean, Len(tables)))
    /\ []((SamplerReturned /\ smp.dist.Variance = 0
            /\ smp.dist.Mean * 10 = 3 * Scale /\ Len(tables) = 40) => smp.idx = 12)
    /\ [][(smp.pc = "loop" /\ smp'.out = "break") =>
            \E z \in Draws : /\ InUnit(SampleOf(z, smp.dist))
                             /\ smp'.value = SampleOf(z, smp.dist)]_vars
    /\ [][(smp.pc = "loop" /\ smp'.pc = "loop") =>
            \E z \in Draws : ~InUnit(SampleOf(z, smp.dist))]_vars
    /\ [][(smp.pc = "loop" /\ \A z \in Draws : InUnit(SampleOf(z, smp.dist))) =>
            (smp.i = 0 /\ smp'.out = "break")]_vars

\* C16 witness: mean 0.3 without spread over 40 tables: index 12.
C16_Witness ==
    /\ smp.pc = "done"
    /\ smp.dist.Variance = 0
    /\ smp.dist.Mean * 10 = 3 * Scale
    /\ Len(tables) = 40
    /\ smp.idx = 12

\* C17: a worker exits only in a step from the loop top with the context
\* done, or in a step from the rate-limiter call with rpsLimit returning an
\* error.  With b.AutoTermDur <= 0 no auto-terminator is put around the
\* caller's context; then, as long as the caller has not cancelled and the
\* limiter has not signalled the end, no worker has exited and Start has not
\* returned from a run with workers.
C17_ExitsOnlyOnDoneOrLimiter ==
    /\ [][\A w \in Workers :
            (workers[w].pc # "exited" /\ workers'[w].pc = "exited") =>
                \/ workers[w].pc = "top" /\ CtxDone
                \/ workers[w].pc = "limit" /\ rpsLimit]_vars
    /\ [](AutoTermDur <= 0 => (autoTerm = "off" /\ CtxDone = cancelled))
    /\ []((AutoTermDur <= 0 /\ ~limiterOver /\ ~cancelled) =>
            /\ \A w \in Workers : workers[w].pc # "exited" /\ workers[w].exitAt = "none"
            /\ wg = Len(workers)
            /\ workers # <<>> => start.pc # "returned")

\* C17 witness: no auto-terminator, a rate limiter that has not signalled the
\* end, no cancellation: a worker has gone through all its iterations, asked
\* the limiter each time, and stands at the loop top again.
C17_Witness ==
    /\ AutoTermDur = 0 /\ RpsLimiter
    /\ ~limiterOver /\ ~cancelled
    /\ start.pc = "join"
    /\ \E w \in Workers :
         /\ workers[w].returned = MaxOps
         /\ workers[w].sent = MaxOps
         /\ workers[w].consulted = MaxOps
         /\ workers[w].pc = "top"

\* C18: rpsLimit is called once in every iteration: a worker has called it once
\* for each client call that returned, once more if it is between the limiter
\* and the return of its call, and once more if it exited at the limiter.  It
\* is called in the step that follows the cancellation check, and only there;
\* the sample is drawn and the request issued only in the step that follows a
\* call of rpsLimit that returned nil.  When rpsLimit returns an error the
\* worker exits in that step: its stream is not advanced, no request is
\* issued, nothing is sent.
C18_LimiterOncePerIteration ==
    /\ [](\A w \in Workers :
            /\ workers[w].consulted =
                   workers[w].returned + OneIf(workers[w].pc \in {"sample", "incall"})
                                       + OneIf(workers[w].exitAt = "limit")
            /\ workers[w].exitAt = "limit" =>
                   /\ workers[w].pc = "exited"
                   /\ workers[w].call = "none"
                   /\ workers[w].sent = workers[w].returned)
    /\ [][\A w \in Workers :
            /\ (workers[w].pc = "top" /\ workers'[w] # workers[w]) =>
                   /\ workers'[w].pc \in {"limit", "exited"}
                   /\ workers'[w].consulted = workers[w].consulted
            /\ workers'[w].consulted # workers[w].consulted =>
                   /\ workers[w].pc = "limit"
                   /\ workers'[w].consulted = workers[w].consulted + 1
            /\ (workers[w].pc = "limit" /\ workers'[w] # workers[w]) =>
                   /\ workers'[w].consulted = workers[w].consulted + 1
                   /\ workers'[w].pc = IF rpsLimit THEN "exited" ELSE "sample"
                   /\ workers'[w].rng = workers[w].rng
                   /\ workers'[w].call = "none"
                   /\ workers'[w].sent = workers[w].sent
                   /\ rcv' = rcv
            /\ (workers'[w].pc = "sample" /\ workers[w].pc # "sample") =>
                   (workers[w].pc = "limit" /\ ~rpsLimit)
            /\ (workers'[w].rng # workers[w].rng \/ workers'[w].call # workers[w].call
                                                  \/ workers'[w].pc = "incall") =>
                   workers[w].pc \in {"sample", "incall"}]_vars

\* C18 witness: the limiter ended a run that nobody cancelled; a worker that
\* had completed a request asked it once more and exited there.
C18_Witness ==
    /\ limiterOver /\ ~CtxDone
    /\ \E w \in Workers :
         /\ workers[w].exitAt = "limit"
         /\ workers[w].returned = 1
         /\ workers[w].sent = 1
         /\ workers[w].consulted = 2

\* C19: the Collector's channel never holds more than its capacity.  A worker
\* whose call has returned stands at the send with no call in flight; while
\* the channel is full it has no step; its next step, the context done or not,
\* appends its Operation to the channel and leads to the loop top.  A worker
\* issues a request only when all its Operations are sent, so it holds at most
\* one unsent Operation, and exactly when it stands at the send.
C19_SendBlocksAndNeverDrops ==
    /\ [](Len(rcv) <= ChanCap)
    /\ [](\A w \in Workers :
            /\ workers[w].returned - workers[w].sent = OneIf(workers[w].pc = "send")
            /\ workers[w].pc = "send" =>
                   /\ workers[w].call = "none"
                   /\ workers[w].op # NoOp
                   /\ Len(rcv) >= ChanCap => ~ENABLED (runReader(w) \/ runWriter(w)))
    /\ [][\A w \in Workers :
            /\ (workers[w].pc = "send" /\ workers'[w] # workers[w]) =>
                   /\ Len(rcv) < ChanCap
                   /\ rcv' = Append(rcv, workers[w].op)
                   /\ workers'[w].sent = workers[w].sent + 1
                   /\ workers'[w].pc = "top"
            /\ (workers[w].call = "none" /\ workers'[w].call # "none") =>
                   workers[w].sent = workers[w].returned]_vars

\* C19 witness: a worker issued its request before the cancellation; the call
\* has returned, the channel is full, the context is done, and the worker
\* stands at the send with its Operation.
C19_Witness ==
    /\ Len(rcv) = ChanCap
    /\ cancelled
    /\ \E w \in Workers :
         /\ workers[w].pc = "send"
         /\ workers[w].issuedAfter = 0
         /\ workers[w].op.Thread = workers[w].thread
         /\ workers[w].op.OpType # "none"

\* C20: the Operation a worker holds while its call is in flight carries no
\* error; when the call returns, the Operation's error is set exactly if the
\* call returned an error, and nothing else of it changes; the Operation that
\* enters the channel is that Operation, unchanged, and Operations in the
\* channel are not touched.
C20_ErrorIffCallFailed ==
    /\ [](\A w \in Workers :
            /\ workers[w].pc = "incall" => (workers[w].op.Err = "" /\ ~workers[w].err)
            /\ workers[w].pc = "send" => (workers[w].op.Err # "" <=> workers[w].err))
    /\ [][\A w \in Workers :
            (workers[w].pc = "incall" /\ workers'[w] # workers[w]) =>
                /\ workers'[w].pc = "send"
                /\ workers'[w].op.Err # "" <=> workers'[w].err
                /\ workers'[w].op = [workers[w].op EXCEPT !.Err = workers'[w].op.Err]]_vars
    /\ [][rcv' # rcv =>
            \/ rcv # <<>> /\ rcv' = Tail(rcv)
            \/ \E w \in Workers :
                  /\ workers[w].pc = "send"
                  /\ rcv' = Append(rcv, workers[w].op)
                  /\ rcv'[Len(rcv')].Err # "" <=> workers[w].err]_vars

\* C20 witness: the Operation of a call that succeeded is in the channel, with
\* no error, and a worker whose call failed stands at the send with an
\* Operation that carries the error.
C20_Witness ==
    /\ rcv # <<>>
    /\ rcv[1].Err = ""
    /\ rcv[1].OpType = OpTableGet
    /\ \E w \in Workers :
         /\ workers[w].pc = "send"
         /\ workers[w].err
         /\ workers[w].op.Err = "error"

\* C21: a worker spawned from a reader distribution has only GetTable calls in
\* flight and holds only table-get Operations, a worker spawned from a writer
\* distribution only UpdateTable calls and table-update Operations; the
\* Operation a worker holds carries its thread id; and every Operation that
\* enters the channel is of the type of the role of the worker that sends it
\* and carries that worker's thread id.
RoleOp(role) == IF role = "reader" THEN OpTableGet ELSE OpTableUpdate

RoleCall(role) == IF role = "reader" THEN "GetTable" ELSE "UpdateTable"

C21_RoleFixesOperation ==
    /\ [](\A w \in Workers :
            /\ workers[w].role = "reader" => \E g \in 1..Len(Readers) : workers[w].dist = Readers[g]
            /\ workers[w].role = "writer" => \E g \in 1..Len(Writers) : workers[w].dist = Writers[g]
            /\ workers[w].call \in {"none", RoleCall(workers[w].role)}
            /\ workers[w].pc = "incall" => workers[w].call = RoleCall(workers[w].role)
            /\ workers[w].pc \in {"incall", "send"} =>
                   /\ workers[w].op.OpType = RoleOp(workers[w].role)
                   /\ workers[w].op.Thread = workers[w].thread)
    /\ [](\A k \in 1..Len(rcv) :
            \E w \in Workers :
                /\ rcv[k].Thread = workers[w].thread
                /\ rcv[k].OpType = RoleOp(workers[w].role))
    /\ [][Len(rcv') > Len(rcv) =>
            \E w \in Workers :
                /\ workers[w].pc = "send" /\ workers'[w].pc = "top"
                /\ rcv'[Len(rcv')].Thread = workers[w].thread
                /\ rcv'[Len(rcv')].OpType = RoleOp(workers[w].role)]_vars

\* C21 witness: a run of a reader (thread 0) and a writer (thread 1): the
\* writer's table-update Operation is in the channel and the reader is inside
\* a GetTable call.
C21_Witness ==
    /\ Len(workers) = 2
    /\ workers[1].role = "reader" /\ workers[2].role = "writer"
    /\ workers[1].pc = "incall" /\ workers[1].call = "GetTable"
    /\ rcv # <<>>
    /\ rcv[1].OpType = OpTableUpdate
    /\ rcv[1].Thread = 1

\* C22: no step of the run changes the target universe.  A step of a worker
\* changes, besides the channel and the wait-group counter, the state of that
\* worker alone: the stream and the locals of every other worker stay.  The
\* stream of a worker that has drawn n indices is the stream made from its
\* seed after n calls of sampleTableIndex with its distribution and N, and the
\* index of its request in progress is the n-th index of that stream: both are
\* the same whatever the other workers did and however the calls ended.
RECURSIVE NthCall(_, _, _, _)
NthCall(seed, dist, numTables, n) ==
    IF n = 0
    THEN [idx |-> 0, rng |-> NewSource(seed)]
    ELSE sampleTableIndex(NthCall(seed, dist, numTables, n - 1).rng, dist, numTables)

Drawn(w) == workers[w].returned + OneIf(workers[w].pc = "incall")

C22_WorkersShareOnlyTheSink ==
    /\ [][tables' = tables]_vars
    /\ [][\A w \in Workers :
            workers'[w] # workers[w] =>
                \A v \in Workers \ {w} : workers'[v] = workers[v]]_vars
    /\ [](\A w \in Workers :
            LET nth == NthCall(workers[w].seed, workers[w].dist, Len(tables), Drawn(w))
            IN  /\ workers[w].rng = nth.rng
                /\ workers[w].pc \in {"incall", "send"} => workers[w].tableIdx = nth.idx)

\* C22 witness: two workers of one group: the first has drawn two indices and
\* had a call fail, the second has drawn one and is inside its call.
C22_Witness ==
    /\ Len(workers) = 2
    /\ workers[1].role = workers[2].role
    /\ workers[1].returned = 2 /\ workers[1].pc = "send" /\ workers[1].err
    /\ workers[2].returned = 0 /\ workers[2].pc = "incall"
    /\ workers[1].rng # NewSource(workers[1].seed)

\* C23: every job the command hands to runBench has distributions with a
\* variance >= 0, as it has means in [0,1], worker counts >= 0 and at least one
\* worker.
C23_VarianceValidated ==
    flags.pc = "runBench" =>
        /\ \A g \in 1..Len(Readers) :
              /\ Readers[g].Count >= 0
              /\ Readers[g].Mean \in 0..Scale
              /\ Readers[g].Variance >= 0
        /\ \A g \in 1..Len(Writers) :
              /\ Writers[g].Count >= 0
              /\ Writers[g].Mean \in 0..Scale
              /\ Writers[g].Variance >= 0
        /\ SumCount(Readers) + SumCount(Writers) > 0

\* C23 failing input: --readers 1 --reader-mean 0 --reader-variance -1 (as
\* -1/Scale^2) --writers 0: the command line passes the check and the job is
\* handed to runBench with a reader distribution of negative variance.
C23_NegativeVarianceRuns ==
    /\ flags.pc = "runBench"
    /\ job.pc = "created"
    /\ Len(Readers) = 1
    /\ Readers[1].Count = 1
    /\ Readers[1].Mean = 0
    /\ Readers[1].Variance < 0
    /\ SumCount(Writers) = 0

\* C24: a worker leaves <-wait only in a step taken with the start signal
\* released, and to the loop top; while the signal is not released every
\* worker waits, cancelled or not, so Start has not returned from a run with
\* workers.  When the signal is released with the context already done, every
\* worker waits, stands at the loop top or has exited by the cancellation
\* check, and none has asked the limiter, drawn from its generator, issued a
\* request or sent an Operation.
C24_BarrierOpensOnlyOnSignal ==
    /\ [][\A w \in Workers :
            (workers[w].pc = "wait" /\ workers'[w] # workers[w]) =>
                /\ wait = "closed"
                /\ workers'[w].pc = "top"]_vars
    /\ [](wait = "open" =>
            /\ ~job.lateRelease
            /\ \A w \in Workers : workers[w].pc = "wait" /\ workers[w].exitAt = "none"
            /\ wg = Len(workers)
            /\ workers # <<>> => start.pc # "returned")
    /\ [](job.lateRelease =>
            /\ CtxDone
            /\ rcv = <<>>
            /\ \A w \in Workers :
                 /\ workers[w].pc \in {"wait", "top", "exited"}
                 /\ workers[w].pc = "exited" <=> workers[w].exitAt = "done"
                 /\ workers[w].consulted = 0
                 /\ workers[w].call = "none"
                 /\ workers[w].returned = 0
                 /\ workers[w].sent = 0
                 /\ workers[w].rng = NewSource(workers[w].seed))

\* C24 witness: the context was cancelled while the signal was not released;
\* after the release both workers of a run with a rate limiter left by their
\* first cancellation check, and Start has returned.
C24_Witness ==
    /\ job.lateRelease
    /\ RpsLimiter
    /\ cancelled
    /\ start.pc = "returned"
    /\ Len(workers) = 2
    /\ \A w \in Workers : workers[w].exitAt = "done" /\ workers[w].returned = 0

====
